---- MODULE Spec2Model ----
(***************************************************************************)
(* Model of app.py: the session-authentication and feature-lifecycle       *)
(* orchestrator of the market-data web application.                        *)
(*                                                                         *)
(* Request handlers (/authenticate, /logout, SocketIO connect/disconnect)  *)
(* run on worker threads.  Each handler works on its own request-local     *)
(* copy of the cookie-backed Flask session, loaded when the request starts *)
(* and written back with the response.  The feature manager (registry) and *)
(* the market-data managers (handles) it holds are process-wide and shared *)
(* by all threads; a handler is split into steps wherever it touches them. *)
(***************************************************************************)
EXTENDS Naturals, Sequences, FiniteSets, TLC

\* ------------------------------------------------------------------ bounds
MaxHandles == 2       \* managers created in one run
MaxRequests == 3      \* requests and events received in one run, handlers interleaved
MaxSeqRequests == 5   \* the same, handlers run one after another
MaxLiveRequests == 2  \* the same, handlers interleaved and run to their end

Threads == {1, 2}     \* worker threads serving requests and events
Sessions == {1, 2}    \* browsers, each with its own session cookie
NoHandle == 0

VARIABLES
    serial,             \* the server handles one request at a time (no interleaving)
    budget,             \* number of requests and events the run receives at most
    ENABLE_MARKET_DATA, \* Config.ENABLE_MARKET_DATA, fixed at start-up
    cookie,             \* cookie[s]: the session dict stored in browser s's cookie
    enabled,            \* feature_manager reports 'market_data' as enabled
    feature,            \* feature_manager's 'market_data' entry: a handle id or NoHandle
    handles,            \* sequence of the market-data managers created so far
    requests,           \* number of requests and events received so far
    browsers,           \* number of browsers that have sent a request or event
    th                  \* th[t]: the handler running (or last run) on thread t

vars == <<serial, budget, ENABLE_MARKET_DATA, cookie, enabled, feature, handles, requests, browsers, th>>

\* ------------------------------------------------------------ session dict
EmptySession == [k \in {} |-> TRUE]

Put(sess, key, val) ==
    [k \in (DOMAIN sess) \cup {key} |-> IF k = key THEN val ELSE sess[k]]

\* session.get(key): a missing key reads as None, which is falsy
Get(sess, key) == IF key \in DOMAIN sess THEN sess[key] ELSE FALSE

Has(sess, key) == key \in DOMAIN sess

\* lines 106-108 and 131-133
SessionMock(sess) ==
    Put(Put(Put(sess, "authenticated", TRUE), "mock_mode", TRUE), "_permanent", TRUE)

SessionReal_NotPermanent(sess) ==
    Put(Put(sess, "authenticated", TRUE), "mock_mode", FALSE)

\* lines 120-122
SessionReal(sess) ==
    Put(Put(Put(sess, "authenticated", TRUE), "mock_mode", FALSE), "_permanent", TRUE)

SessionFault_NotAuthenticated(sess) == Put(sess, "mock_mode", TRUE)

SessionFault_NoMode(sess) == Put(sess, "authenticated", TRUE)

\* lines 142-143: the except branch does not touch session.permanent
SessionFault(sess) ==
    Put(Put(sess, "authenticated", TRUE), "mock_mode", TRUE)

SessionClear_KeepsAuth(sess) ==
    [k \in (DOMAIN sess) \cap {"authenticated"} |-> sess[k]]

\* line 153: session.clear()
SessionClear(sess) == EmptySession

\* ---------------------------------------------------------- thread record
Idle ==
    [pc |-> "idle", op |-> "none", sid |-> 0, session |-> EmptySession,
     flag |-> FALSE, use_mock |-> FALSE, client |-> "none",
     notices |-> <<>>, featInit |-> <<>>, regInit |-> <<>>, clientCalls |-> 0,
     initOutcome |-> "none", newHandle |-> NoHandle,
     mgr |-> NoHandle, existed |-> FALSE, sawGuard |-> FALSE,
     started |-> 0, restart |-> FALSE, guardAtStart |-> FALSE,
     success |-> "none", stopCalls |-> 0, stopped |-> "none", escaped |-> FALSE,
     target |-> "none"]

\* a request of browser s arrives on a free thread
Fresh(op, s) == [Idle EXCEPT !.op = op, !.sid = s]

Free(t) == th[t].pc = "idle"


\* Positions before a step that touches nothing but the request's own data
\* (an upstream call, a session write, a notice, the return and its response).
\* Such a step is taken at once, before any other thread steps.
LocalPcs == {"get_client", "clear", "redirect", "done", "faulted"}

AtLocal(t) == th[t].pc \in LocalPcs

\* Thread t may take its next step: handlers of different threads interleave at
\* every step that reads or writes shared state (the cookies, the feature
\* manager, the market-data managers), unless the server is serial.
Turn(t) ==
    /\ AtLocal(t) \/ \A u \in Threads : ~AtLocal(u)
    /\ serial => \A u \in Threads \ {t} : th[u].pc = "idle"

\* A new request or event of browser s is accepted on thread t.  Workers and
\* browsers are interchangeable, so the request goes to the lowest free worker
\* and browsers are numbered in the order of their first request.
Accept(t, s) ==
    /\ Free(t)
    /\ Turn(t)
    /\ requests < budget
    /\ \A u \in Threads : Free(u) => t <= u
    /\ s <= browsers + 1
    /\ browsers' = IF s > browsers THEN s ELSE browsers
    /\ requests' = requests + 1

\* --------------------------------------------------------------- registry
IsFeatureEnabled == enabled

GetFeature == feature

NewManager(use_mock) ==
    [_streaming_started |-> FALSE, start_invoked |-> FALSE, active |-> FALSE,
     is_mock_mode |-> use_mock]

\* lines 19-48 and 202: the application has started, nothing is initialized
Started ==
    /\ ENABLE_MARKET_DATA \in BOOLEAN
    /\ cookie = [s \in Sessions |-> EmptySession]
    /\ enabled = FALSE
    /\ feature = NoHandle
    /\ handles = <<>>
    /\ requests = 0
    /\ browsers = 0
    /\ th = [t \in Threads |-> Idle]


\* ------------------------------------------------------------ /authenticate
UseMock_ParamOnly(param, env) == param

\* lines 99-102: query parameter 'mock' or environment variable USE_MOCK_DATA
UseMock(param, env) == param \/ env

NoticeFor_FallbackWarning(branch) ==
    IF branch = "real" THEN "success" ELSE "warning"

\* lines 111, 125, 135 and 145: the category of the notice each branch flashes
NoticeFor(branch) ==
    CASE branch = "mock" -> "warning"
      [] branch = "real" -> "success"
      [] branch = "fallback" -> "error"
      [] branch = "fault" -> "error"

\* the try blocks: an Exception raised inside is handled by the except clause
AuthCatches_None == FALSE
AuthCatches == TRUE     \* lines 97, 140
InitCatches == TRUE     \* lines 53, 75
CleanupCatches_None == FALSE
CleanupCatches == TRUE  \* lines 81, 86
ConnectCatches == TRUE  \* lines 185, 194

\* lines 95-114: request start, mode decision and, when the flag is set, the mock branch
AuthBegin(t, s, param, env) ==
    /\ Accept(t, s)
    /\ LET r == [Fresh("authenticate", s) EXCEPT
                    !.session = cookie[s], !.flag = (param \/ env)]
       IN  th' = [th EXCEPT ![t] =
               IF UseMock(param, env)
               THEN [r EXCEPT !.session = SessionMock(r.session),
                              !.notices = <<NoticeFor("mock")>>,
                              !.use_mock = TRUE,
                              !.pc = "init"]
               ELSE [r EXCEPT !.pc = "get_client"]]
    /\ UNCHANGED <<serial, budget, ENABLE_MARKET_DATA, cookie, enabled, feature, handles>>

\* lines 117-136 and 140-145: get_schwab_client() returns a client, returns None or raises
AuthGetClient(t, outcome) ==
    /\ Turn(t)
    /\ th[t].pc = "get_client"
    /\ LET r == [th[t] EXCEPT !.client = outcome, !.clientCalls = @ + 1]
       IN  th' = [th EXCEPT ![t] =
               CASE outcome = "obtained" ->
                        [r EXCEPT !.session = SessionReal(r.session),
                                  !.notices = Append(@, NoticeFor("real")),
                                  !.use_mock = FALSE,
                                  !.pc = "init"]
                 [] outcome = "absent" ->
                        [r EXCEPT !.session = SessionMock(r.session),
                                  !.notices = Append(@, NoticeFor("fallback")),
                                  !.use_mock = TRUE,
                                  !.pc = "init"]
                 [] outcome = "fault" ->
                        IF AuthCatches
                        THEN [r EXCEPT !.session = SessionFault(r.session),
                                       !.notices = Append(@, NoticeFor("fault")),
                                       !.use_mock = TRUE,
                                       !.pc = "init"]
                        ELSE [r EXCEPT !.escaped = TRUE, !.pc = "faulted"]]
    /\ UNCHANGED <<serial, budget, requests, browsers, ENABLE_MARKET_DATA, cookie, enabled, feature, handles>>

\* What is_feature_enabled('market_data') may report after initialize_market_data:
\* enabled once it returned a manager; when it returned nothing or raised, the
\* registry may or may not have marked the feature enabled before giving up.
EnabledAfter(outcome) ==
    CASE outcome = "ok" -> {TRUE}
      [] outcome \in {"failed", "fault_registry"} -> {enabled, TRUE}
      [] OTHER -> {enabled}

RegistryCalled_Always(outcome) == TRUE

\* line 64 is reached: the toggle is on (line 52) and lines 54-62 did not raise
RegistryCalled(outcome) == outcome \in {"ok", "failed", "fault_registry"}

\* lines 50-76: _initialize_features(use_mock), and lines 138 and 147: the
\* redirect to 'index' the view function then builds.  outcome:
\*   "skipped"        the feature toggle is off (line 52)
\*   "fault_collab"   building the collaborators raises (lines 56-58 or 61-62)
\*   "ok"             initialize_market_data returns a manager (line 68)
\*   "failed"         initialize_market_data returns nothing (line 72)
\*   "fault_registry" initialize_market_data raises (line 75)
InitializeFeatures(t, outcome) ==
    /\ Turn(t)
    /\ th[t].pc = "init"
    /\ IF ENABLE_MARKET_DATA
       THEN outcome \in {"fault_collab", "ok", "failed", "fault_registry"}
       ELSE outcome = "skipped"
    /\ outcome = "ok" => Len(handles) < MaxHandles
    /\ LET um == th[t].use_mock
           called == RegistryCalled(outcome)
           faulted == outcome \in {"fault_collab", "fault_registry"} /\ ~InitCatches
           r == [th[t] EXCEPT
                    !.featInit = Append(@, um),
                    !.clientCalls = IF ENABLE_MARKET_DATA /\ ~um THEN @ + 1 ELSE @,
                    !.regInit = IF called THEN Append(@, um) ELSE @,
                    !.initOutcome = outcome,
                    !.newHandle = IF outcome = "ok" THEN Len(handles) + 1 ELSE NoHandle,
                    !.escaped = faulted,
                    !.target = IF faulted THEN "none" ELSE "index",
                    !.pc = IF faulted THEN "faulted" ELSE "redirect"]
       IN  /\ th' = [th EXCEPT ![t] = r]
           /\ IF outcome = "ok"
              THEN /\ handles' = Append(handles, NewManager(um))
                   /\ feature' = Len(handles) + 1
              ELSE UNCHANGED <<feature, handles>>
           /\ enabled' \in EnabledAfter(outcome)
    /\ UNCHANGED <<serial, budget, requests, browsers, ENABLE_MARKET_DATA, cookie>>

\* lines 138, 147 and 155: the view function returns its redirect; the response
\* carries the request's session back to the browser's cookie
Redirect(t) ==
    /\ Turn(t)
    /\ th[t].pc = "redirect"
    /\ cookie' = [cookie EXCEPT ![th[t].sid] = th[t].session]
    /\ th' = [th EXCEPT ![t] = Idle]
    /\ UNCHANGED <<serial, budget, requests, browsers, ENABLE_MARKET_DATA, enabled, feature, handles>>

\* ------------------------------------------------------------------ /logout
\* lines 150-152: request start
LogoutBegin(t, s) ==
    /\ Accept(t, s)
    /\ th' = [th EXCEPT ![t] = [Fresh("logout", s) EXCEPT !.session = cookie[s],
                                                          !.pc = "cleanup"]]
    /\ UNCHANGED <<serial, budget, ENABLE_MARKET_DATA, cookie, enabled, feature, handles>>

\* lines 80-83: enabled check and lookup of the manager
CleanupLookup(t) ==
    /\ Turn(t)
    /\ th[t].pc = "cleanup"
    /\ LET m == IF IsFeatureEnabled THEN GetFeature ELSE NoHandle
       IN  th' = [th EXCEPT ![t].mgr = m,
                            ![t].existed = (feature # NoHandle),
                            ![t].pc = IF m # NoHandle THEN "stop" ELSE "clear"]
    /\ UNCHANGED <<serial, budget, requests, browsers, ENABLE_MARKET_DATA, cookie, enabled, feature, handles>>

\* lines 84-87: stop_streaming() returns or raises
CleanupStop(t, outcome) ==
    /\ Turn(t)
    /\ th[t].pc = "stop"
    /\ LET faulted == outcome = "fault" /\ ~CleanupCatches
       IN  th' = [th EXCEPT ![t].stopCalls = @ + 1,
                            ![t].stopped = outcome,
                            ![t].escaped = faulted,
                            ![t].pc = IF faulted THEN "faulted" ELSE "clear"]
    /\ handles' = IF outcome = "ok"
                  THEN [handles EXCEPT ![th[t].mgr].active = FALSE]
                  ELSE handles
    /\ UNCHANGED <<serial, budget, requests, browsers, ENABLE_MARKET_DATA, cookie, enabled, feature>>

\* lines 153-155: session.clear(), the info notice and the redirect to 'login' 
LogoutClear(t) ==
    /\ Turn(t)
    /\ th[t].pc = "clear"
    /\ th' = [th EXCEPT ![t].session = SessionClear(th[t].session),
                        ![t].notices = Append(@, "info"),
                        ![t].target = "login",
                        ![t].pc = "redirect"]
    /\ UNCHANGED <<serial, budget, requests, browsers, ENABLE_MARKET_DATA, cookie, enabled, feature, handles>>

\* ------------------------------------------------------- SocketIO handlers
GuardUnset_Always(h) == TRUE

GuardUnset_Never(h) == FALSE

\* line 187: not hasattr(market_data_manager, '_streaming_started')
GuardUnset(h) == ~handles[h]._streaming_started

ConnectAllowed_NoSessionCheck(sess) == IsFeatureEnabled

\* line 184: session.get('authenticated') and feature_manager.is_feature_enabled('market_data')
ConnectAllowed(sess) == Get(sess, "authenticated") /\ IsFeatureEnabled

\* lines 180-186: session check, enabled check and lookup of the manager
Connect(t, s) ==
    /\ Accept(t, s)
    /\ LET r == [Fresh("connect", s) EXCEPT !.session = cookie[s]]
           m == IF ConnectAllowed(r.session) THEN GetFeature ELSE NoHandle
       IN  th' = [th EXCEPT ![t] =
               [r EXCEPT !.mgr = m,
                         !.pc = IF m # NoHandle THEN "check" ELSE "done"]]
    /\ UNCHANGED <<serial, budget, ENABLE_MARKET_DATA, cookie, enabled, feature, handles>>

\* line 187: the guard test
ConnectCheckGuard(t) ==
    /\ Turn(t)
    /\ th[t].pc = "check"
    /\ th' = [th EXCEPT ![t].sawGuard = ~GuardUnset(th[t].mgr),
                        ![t].pc = IF GuardUnset(th[t].mgr) THEN "start" ELSE "done"]
    /\ UNCHANGED <<serial, budget, requests, browsers, ENABLE_MARKET_DATA, cookie, enabled, feature, handles>>

StartSucceeded_Always(outcome) == TRUE

\* line 189: if success
StartSucceeded(outcome) == outcome = "ok"

\* lines 188-189, 192-195: start_streaming() reports success, reports failure or raises
StartStreaming(t, outcome) ==
    /\ Turn(t)
    /\ th[t].pc = "start"
    /\ LET faulted == outcome = "fault" /\ ~ConnectCatches
       IN  th' = [th EXCEPT ![t].started = @ + 1,
                            ![t].restart = handles[th[t].mgr].start_invoked,
                            ![t].guardAtStart = handles[th[t].mgr]._streaming_started,
                            ![t].success = outcome,
                            ![t].escaped = faulted,
                            ![t].pc = IF StartSucceeded(outcome) THEN "set_guard"
                                      ELSE IF faulted THEN "faulted" ELSE "done"]
    /\ handles' = [handles EXCEPT ![th[t].mgr].start_invoked = TRUE,
                                  ![th[t].mgr].active =
                                      IF outcome = "ok" THEN TRUE ELSE @]
    /\ UNCHANGED <<serial, budget, requests, browsers, ENABLE_MARKET_DATA, cookie, enabled, feature>>

\* lines 190-191: market_data_manager._streaming_started = True
SetGuard(t) ==
    /\ Turn(t)
    /\ th[t].pc = "set_guard"
    /\ handles' = [handles EXCEPT ![th[t].mgr]._streaming_started = TRUE]
    /\ th' = [th EXCEPT ![t].pc = "done"]
    /\ UNCHANGED <<serial, budget, requests, browsers, ENABLE_MARKET_DATA, cookie, enabled, feature>>

Disconnect_StopsStreaming(t, s) ==
    /\ Accept(t, s)
    /\ th' = [th EXCEPT ![t] = [Fresh("disconnect", s) EXCEPT !.pc = "done"]]
    /\ handles' = [h \in DOMAIN handles |-> [handles[h] EXCEPT !.active = FALSE]]
    /\ UNCHANGED <<serial, budget, ENABLE_MARKET_DATA, cookie, enabled, feature>>

\* lines 197-199: only a log line
Disconnect(t, s) ==
    /\ Accept(t, s)
    /\ th' = [th EXCEPT ![t] = [Fresh("disconnect", s) EXCEPT !.pc = "done"]]
    /\ UNCHANGED <<serial, budget, ENABLE_MARKET_DATA, cookie, enabled, feature, handles>>

\* lines 195 and 199: the event handler returns; the worker thread is free again
Return(t) ==
    /\ Turn(t)
    /\ th[t].pc \in {"done", "faulted"}
    /\ th' = [th EXCEPT ![t] = Idle]
    /\ UNCHANGED <<serial, budget, requests, browsers, ENABLE_MARKET_DATA, cookie, enabled, feature, handles>>

\* ------------------------------------------------------------ specification
\* a request or event arrives and its handler is entered on thread t
Receive(t) ==
    \/ \E s \in Sessions, param \in BOOLEAN, env \in BOOLEAN : AuthBegin(t, s, param, env)
    \/ \E s \in Sessions : LogoutBegin(t, s)
    \/ \E s \in Sessions : Connect(t, s)
    \/ \E s \in Sessions : Disconnect(t, s)

\* the handler entered on thread t takes its next step
Run(t) ==
    \/ \E outcome \in {"obtained", "absent", "fault"} : AuthGetClient(t, outcome)
    \/ \E outcome \in {"skipped", "fault_collab", "ok", "failed", "fault_registry"} :
           InitializeFeatures(t, outcome)
    \/ CleanupLookup(t)
    \/ \E outcome \in {"ok", "fault"} : CleanupStop(t, outcome)
    \/ LogoutClear(t)
    \/ Redirect(t)
    \/ ConnectCheckGuard(t)
    \/ \E outcome \in {"ok", "fail", "fault"} : StartStreaming(t, outcome)
    \/ SetGuard(t)
    \/ Return(t)

Step(t) == Receive(t) \/ Run(t)

Next == \E t \in Threads : Step(t)

\* handlers interleave
Init == serial = FALSE /\ budget = MaxRequests /\ Started

Spec == Init /\ [][Next]_vars

\* handlers run one after another
InitSeq == serial = TRUE /\ budget = MaxSeqRequests /\ Started

SpecSeq == InitSeq /\ [][Next]_vars

\* handlers interleave, and a handler that has been entered runs on: the server
\* does not abandon a worker thread in the middle of a handler
InitLive == serial = FALSE /\ budget = MaxLiveRequests /\ Started

SpecLive == InitLive /\ [][Next]_vars /\ \A t \in Threads : WF_vars(Run(t))

\* ------------------------------------------------------------------ claims
\* The view function of /authenticate or /logout on thread t has run all its
\* statements and stands at its return; the event handler on t has returned.
AuthDone(t) == th[t].op = "authenticate" /\ th[t].pc = "redirect"

LogoutDone(t) == th[t].op = "logout" /\ th[t].pc = "redirect"

ConnectDone(t) == th[t].op = "connect" /\ th[t].pc = "done"

All(seq, val) == \A i \in DOMAIN seq : seq[i] = val

\* C1: across connect events whose steps interleave, start_streaming is never
\* invoked on a manager on which it was invoked before.
C1_StartAtMostOnce == \A t \in Threads : ~th[t].restart

\* C2: every execution of /authenticate ends with session['authenticated'] true,
\* whatever the flag and whatever get_schwab_client() did.
C2_AuthenticatedAfterAuthenticate ==
    \A t \in Threads : AuthDone(t) => Get(th[t].session, "authenticated")

C2_Witness ==
    \E t \in Threads :
        /\ AuthDone(t)
        /\ th[t].client = "fault"
        /\ Get(th[t].session, "authenticated")

\* C3: with the simulation flag set (query parameter or environment), /authenticate
\* ends in mock mode, never calls get_schwab_client() and never initializes the
\* feature with the real collaborators.
C3_FlagMeansMockOnly ==
    \A t \in Threads :
        (AuthDone(t) /\ th[t].flag) =>
            /\ Has(th[t].session, "mock_mode") /\ th[t].session["mock_mode"]
            /\ th[t].clientCalls = 0
            /\ All(th[t].featInit, TRUE)
            /\ All(th[t].regInit, TRUE)

C3_Witness ==
    \E t \in Threads :
        /\ AuthDone(t)
        /\ th[t].flag
        /\ th[t].regInit = <<TRUE>>
        /\ th[t].initOutcome = "ok"
        /\ handles[th[t].newHandle].is_mock_mode

\* C4: when /logout has run, its session holds no authentication state, and it
\* called stop_streaming() exactly once if a manager existed and not at all if
\* none existed.
C4_LogoutClearsAndStopsOnce ==
    \A t \in Threads :
        LogoutDone(t) =>
            /\ ~Get(th[t].session, "authenticated")
            /\ th[t].stopCalls = (IF th[t].existed THEN 1 ELSE 0)

C4_Witness ==
    \E t \in Threads :
        /\ LogoutDone(t)
        /\ th[t].existed
        /\ th[t].stopCalls = 1
        /\ Get(cookie[th[t].sid], "authenticated")
        /\ ~Get(th[t].session, "authenticated")

\* C5: /authenticate picks mode, notice and initializer by first match: flag ->
\* mock mode, 'warning', mock initializer; client obtained -> real mode,
\* 'success', real initializer; no client -> mock mode, 'error', mock
\* initializer; fault -> mock mode, 'error', mock initializer; one notice each.
C5_ModeAndNoticeByFirstMatch ==
    \A t \in Threads :
        AuthDone(t) =>
            LET mode == Has(th[t].session, "mock_mode") /\ th[t].session["mock_mode"]
                real == Has(th[t].session, "mock_mode") /\ ~th[t].session["mock_mode"]
            IN  /\ th[t].flag =>
                    /\ th[t].client = "none"
                    /\ mode /\ th[t].notices = <<"warning">> /\ th[t].featInit = <<TRUE>>
                /\ (~th[t].flag /\ th[t].client = "obtained") =>
                    real /\ th[t].notices = <<"success">> /\ th[t].featInit = <<FALSE>>
                /\ (~th[t].flag /\ th[t].client = "absent") =>
                    mode /\ th[t].notices = <<"error">> /\ th[t].featInit = <<TRUE>>
                /\ (~th[t].flag /\ th[t].client = "fault") =>
                    mode /\ th[t].notices = <<"error">> /\ th[t].featInit = <<TRUE>>
                /\ ~th[t].flag => th[t].client \in {"obtained", "absent", "fault"}

C5_Witness ==
    \E t \in Threads :
        /\ AuthDone(t)
        /\ ~th[t].flag
        /\ th[t].client = "absent"
        /\ th[t].notices = <<"error">>
        /\ th[t].session["mock_mode"]

\* C6: with connect events handled one after another, start_streaming is never
\* invoked on a manager whose guard is already set.
C6_NoStartOnceGuardSet ==
    \A t \in Threads : th[t].started > 0 => ~th[t].guardAtStart

C6_Witness ==
    \E t \in Threads :
        /\ serial
        /\ ConnectDone(t)
        /\ th[t].sawGuard
        /\ th[t].started = 0
        /\ handles[th[t].mgr].active

\* C7: /logout never faults and always reaches its return with the session
\* cleared, whether stop_streaming() returns or raises and also when no manager
\* exists.
C7_LogoutNeverFaults ==
    \A t \in Threads :
        th[t].op = "logout" =>
            /\ ~th[t].escaped
            /\ th[t].pc \in {"cleanup", "stop", "clear", "redirect"}
            /\ th[t].pc = "redirect" => th[t].session = EmptySession

C7_Witness ==
    \E t \in Threads :
        /\ LogoutDone(t)
        /\ th[t].stopped = "fault"
        /\ th[t].session = EmptySession

\* C8: in every reachable state a session with authenticated true has mock_mode
\* defined, in the cookies and in the requests in flight.
C8_AuthenticatedHasMode ==
    /\ \A s \in Sessions :
        Get(cookie[s], "authenticated") => Has(cookie[s], "mock_mode")
    /\ \A t \in Threads :
        Get(th[t].session, "authenticated") => Has(th[t].session, "mock_mode")

C8_Witness ==
    \E s \in Sessions :
        /\ cookie[s] = SessionFault(EmptySession)
        /\ feature # NoHandle

\* The manager the registry held when the /authenticate on thread t began
\* (handlers run one after another; managers are numbered in creation order).
PrevHandle(t) ==
    IF th[t].newHandle # NoHandle THEN th[t].newHandle - 1 ELSE feature

\* Manager h started streaming and a logout has stopped it since.
StoppedByLogout(h) ==
    /\ h # NoHandle
    /\ handles[h]._streaming_started
    /\ ~handles[h].active

C9_FreshAfterSuccessfulInit ==
    \A t \in Threads :
        /\ (AuthDone(t) /\ StoppedByLogout(PrevHandle(t)) /\ th[t].initOutcome = "ok") =>
               /\ feature = th[t].newHandle
               /\ GuardUnset(feature)
               /\ ~handles[feature].start_invoked
        /\ (AuthDone(t) /\ StoppedByLogout(PrevHandle(t)) /\ th[t].initOutcome # "ok") =>
               feature = PrevHandle(t)
        /\ (ConnectDone(t) /\ th[t].mgr # NoHandle
                /\ ~handles[th[t].mgr]._streaming_started) =>
               th[t].started = 1

GuardNeverReset ==
    \A h \in DOMAIN handles :
        handles[h]._streaming_started => handles'[h]._streaming_started

C10_InitFaultFallsBack ==
    \A t \in Threads :
        (AuthDone(t) /\ th[t].initOutcome \in {"fault_collab", "fault_registry"}) =>
            /\ Has(th[t].session, "mock_mode") /\ th[t].session["mock_mode"]
            /\ \E i \in DOMAIN th[t].notices : th[t].notices[i] = "error"
            /\ th[t].featInit # <<>> /\ th[t].featInit[Len(th[t].featInit)] = TRUE
            /\ th[t].regInit # <<>> /\ th[t].regInit[Len(th[t].regInit)] = TRUE

\* No fault has escaped the /authenticate or /logout running on a thread, and
\* the one returns a redirect to 'index', the other a redirect to 'login'.
C11_NoFaultEscapes ==
    \A t \in Threads :
        /\ th[t].op = "authenticate" =>
               /\ ~th[t].escaped
               /\ th[t].pc \in {"get_client", "init", "redirect"}
               /\ th[t].pc = "redirect" => th[t].target = "index"
        /\ th[t].op = "logout" =>
               /\ ~th[t].escaped
               /\ th[t].pc \in {"cleanup", "stop", "clear", "redirect"}
               /\ th[t].pc = "redirect" => th[t].target = "login"

\* C11: no fault escapes /authenticate or /logout, the one returns a redirect to
\* the landing page and the other a redirect to the login page, and every
\* execution of either reaches that return, whatever the collaborators do.
C11_AlwaysRedirects ==
    /\ []C11_NoFaultEscapes
    /\ \A t \in Threads : (th[t].op = "authenticate") ~> AuthDone(t)
    /\ \A t \in Threads : (th[t].op = "logout") ~> LogoutDone(t)

C11_Witness ==
    \E t \in Threads :
        /\ AuthDone(t)
        /\ th[t].client = "fault"
        /\ th[t].initOutcome = "fault_registry"
        /\ th[t].target = "index"
        /\ ~th[t].escaped

\* The connect event on thread u stands between its guard test and the end of
\* its start_streaming / set-guard sequence on manager h.
InGuardSequence(u, h) ==
    /\ th[u].op = "connect"
    /\ th[u].pc \in {"start", "set_guard"}
    /\ th[u].mgr = h

\* The logout on thread t executes its stop_streaming() call in this step.
StopStep(t) ==
    /\ th[t].op = "logout"
    /\ th[t].pc = "stop"
    /\ th'[t].pc # "stop"

C12_NoStopInsideGuardSequence ==
    \A t \in Threads : \A u \in Threads \ {t} :
        StopStep(t) => ~InGuardSequence(u, th[t].mgr)

\* C12: the stop_streaming() call of a logout never executes while a connect
\* event stands inside its guard-test / start_streaming / set-guard sequence on
\* the same manager.
C12_StopAndStartNeverInterleave == [][C12_NoStopInsideGuardSequence]_vars

\* C13 as stated: every execution of /authenticate calls
\* feature_manager.initialize_market_data exactly once.
C13_ExactlyOneRegistryCall ==
    \A t \in Threads : AuthDone(t) => Len(th[t].regInit) = 1

\* C13 amended: every execution of /authenticate calls _initialize_features
\* exactly once, with the mode it chose, and calls
\* feature_manager.initialize_market_data at most once: once, with that mode,
\* when the toggle is on and the collaborators were built, and not at all when
\* the toggle is off or building the collaborators raised.
C13_OneCallWhenEnabledAndBuilt ==
    \A t \in Threads :
        AuthDone(t) =>
            /\ th[t].featInit = <<th[t].use_mock>>
            /\ th[t].regInit =
                   (IF ENABLE_MARKET_DATA /\ th[t].initOutcome # "fault_collab"
                    THEN <<th[t].use_mock>> ELSE <<>>)

C13_Witness ==
    \E t \in Threads :
        /\ AuthDone(t)
        /\ th[t].client = "fault"
        /\ ENABLE_MARKET_DATA
        /\ th[t].initOutcome = "failed"
        /\ th[t].regInit = <<TRUE>>

C14_FailedStartLeavesGuardUnset ==
    \A t \in Threads :
        /\ (ConnectDone(t) /\ th[t].success \in {"fail", "fault"}) =>
               /\ ~handles[th[t].mgr]._streaming_started
               /\ th[t].started = 1
        /\ (ConnectDone(t) /\ th[t].mgr # NoHandle /\ ~th[t].sawGuard) =>
               th[t].started = 1

C14_GuardSetOnlyAfterSuccess ==
    \A h \in DOMAIN handles :
        (~handles[h]._streaming_started /\ handles'[h]._streaming_started) =>
            \E t \in Threads :
                /\ th[t].pc = "set_guard" /\ th'[t].pc = "done"
                /\ th[t].mgr = h
                /\ th[t].success = "ok"
                /\ th[t].started = 1

\* C14: with connect events handled one after another, a connect event whose
\* start_streaming() reports failure or raises leaves the guard unset and has
\* called start_streaming() once; a connect event that finds the guard of its
\* manager unset calls start_streaming(), so the one after a failed start calls
\* it again; and the guard is set only by a connect event whose
\* start_streaming() call reported success.
C14_FailedStartIsRetried ==
    [](C14_FailedStartLeavesGuardUnset) /\ [][C14_GuardSetOnlyAfterSuccess]_vars

C14_Witness ==
    \E t \in Threads :
        /\ serial
        /\ ConnectDone(t)
        /\ th[t].restart
        /\ th[t].started = 1
        /\ th[t].success = "fail"
        /\ ~handles[th[t].mgr]._streaming_started

\* A connect event is entered on thread t in this step.
ConnectEntered(t) == th[t].pc = "idle" /\ th'[t].op = "connect"

C15_NoOpConnectStep ==
    \A t \in Threads :
        /\ (/\ ConnectEntered(t)
            /\ \/ ~Get(cookie[th'[t].sid], "authenticated")
               \/ ~IsFeatureEnabled
               \/ GetFeature = NoHandle) =>
               /\ th'[t].mgr = NoHandle
               /\ th'[t].pc = "done"
               /\ th'[t].started = 0
               /\ th'[t].session = cookie[th'[t].sid]
               /\ UNCHANGED <<cookie, enabled, feature, handles>>
        /\ (th[t].op = "connect" /\ th[t].mgr = NoHandle /\ th'[t] # th[t]) =>
               /\ th'[t] = Idle
               /\ UNCHANGED <<cookie, enabled, feature, handles>>

\* C15: a connect event whose session is not authenticated, or for which the
\* feature is not enabled, or for which the registry holds no manager, calls no
\* start_streaming() and changes neither the session cookie, nor the registry,
\* nor any manager or guard, in the step that enters it and in its return.
C15_NoOpConnectChangesNothing == [][C15_NoOpConnectStep]_vars

C15_Witness ==
    \E t \in Threads :
        /\ ConnectDone(t)
        /\ ~Get(th[t].session, "authenticated")
        /\ IsFeatureEnabled
        /\ GetFeature # NoHandle
        /\ GuardUnset(GetFeature)
        /\ th[t].mgr = NoHandle
        /\ th[t].started = 0

C16_DisconnectStep ==
    \A t \in Threads :
        ((th[t].op = "disconnect" \/ th'[t].op = "disconnect") /\ th'[t] # th[t]) =>
            /\ UNCHANGED <<cookie, enabled, feature, handles>>
            /\ th'[t].op = "disconnect" =>
                   /\ th'[t].pc = "done"
                   /\ th'[t].stopCalls = 0
                   /\ th'[t].started = 0
            /\ th[t].op = "disconnect" => th'[t] = Idle

\* C16: a disconnect event changes neither the session cookie, nor the registry,
\* nor any manager, guard or running stream, in the step that enters its handler
\* and in its return; it calls neither stop_streaming() nor start_streaming().
C16_DisconnectChangesNothing == [][C16_DisconnectStep]_vars

C16_Witness ==
    \E t \in Threads :
        /\ th[t].op = "disconnect"
        /\ th[t].pc = "done"
        /\ Get(cookie[th[t].sid], "authenticated")
        /\ GetFeature # NoHandle
        /\ handles[GetFeature]._streaming_started
        /\ handles[GetFeature].active

\* C17: with handlers run one after another, whenever a connect event of an
\* authenticated session has returned, the feature being enabled and a manager
\* held, without start_streaming() having failed or raised, the stream of that
\* manager is active.
C17_ConnectLeavesStreamActive ==
    \A t \in Threads :
        (ConnectDone(t) /\ th[t].mgr # NoHandle /\ th[t].success \notin {"fail", "fault"}) =>
            handles[th[t].mgr].active

\* The managers whose stream is running: started and not stopped since.
ActiveHandles == {h \in DOMAIN handles : handles[h].active}

\* C18: in every reachable state at most one manager has a running stream, and
\* a manager that /authenticate has replaced in the registry, and on which
\* start_streaming() was invoked, has no running stream.
C18_AtMostOneActiveStream ==
    /\ Cardinality(ActiveHandles) <= 1
    /\ \A h \in DOMAIN handles :
           (h # GetFeature /\ handles[h].start_invoked) => ~handles[h].active

\* C19: with handlers run one after another and a single browser, whenever no
\* handler is running, the session is authenticated and the registry holds a
\* manager, the mode the manager was created under equals the session's
\* mock_mode.
C19_HandleModeIsSessionMode ==
    (/\ browsers <= 1
     /\ \A t \in Threads : Free(t)
     /\ Get(cookie[1], "authenticated")
     /\ GetFeature # NoHandle) =>
        handles[GetFeature].is_mock_mode = Get(cookie[1], "mock_mode")

\* C20 as stated: every execution of /authenticate that marks the session
\* authenticated also marks it persistent.
C20_AuthenticatedIsPersistent ==
    \A t \in Threads :
        (AuthDone(t) /\ Get(th[t].session, "authenticated")) =>
            Get(th[t].session, "_permanent")

\* C20 amended: with handlers run one after another, an execution of
\* /authenticate that ends on the flag, real-client or fallback path marks the
\* session persistent; one that ends on the fault path marks it authenticated
\* and leaves its persistent mark as the request found it.
C20_PersistentExceptOnFaultPath ==
    \A t \in Threads :
        AuthDone(t) =>
            /\ Get(th[t].session, "authenticated")
            /\ th[t].client # "fault" => Get(th[t].session, "_permanent")
            /\ th[t].client = "fault" =>
                   /\ Has(th[t].session, "_permanent") = Has(cookie[th[t].sid], "_permanent")
                   /\ Get(th[t].session, "_permanent") = Get(cookie[th[t].sid], "_permanent")

C20_Witness ==
    \E t \in Threads :
        /\ serial
        /\ AuthDone(t)
        /\ th[t].client = "fault"
        /\ Get(th[t].session, "authenticated")
        /\ ~Has(th[t].session, "_permanent")

====
